---- MODULE Spec2Model ----
(***************************************************************************)
(* Model of the USSD dialog engine of src/app.py (Village Marketplace).    *)
(* Texts, names, phone numbers and session ids are sequences of one-       *)
(* character strings, so that split("*"), strip() and replace("+", "")     *)
(* are computed as Python computes them.  Menu labels are the constants    *)
(* of the source and stay TLA+ strings.                                    *)
(***************************************************************************)
EXTENDS Integers, Sequences, FiniteSets, TLC

\* tokens: the sanitized parts of the request being answered
\* workers: the server threads answering requests at the same time, each with
\*          its position in the handler and its local values
VARIABLES SESSIONS, DB, pc, req, tokens, reply, turns, workers

vars == <<SESSIONS, DB, pc, req, tokens, reply, turns, workers>>

(* ------------------------------ bounds --------------------------------- *)

\* longest raw text given to the tokenizer on its own
MaxRaw == 5

\* number of further tokens a caller appends when looking for the main menu
MaxAppend == 2

\* number of requests handled in one behaviour
MaxTurns == 5

(* ------------------------- program constants --------------------------- *)

RECENT_LIMIT == 5

\* limit=20 of list_latest_by_category / list_latest_by_categories
LIST_LIMIT == 20

\* format_list stops after the 9th numbered line
FORMAT_MAX == 9

None == "<None>"

PILOT_CATEGORIES ==
  << << <<"1">>, "Shops & Daily Needs" >>,
     << <<"2">>, "Food & Drinks" >>,
     << <<"3">>, "Transport" >>,
     << <<"4">>, "Services (Fundis)" >>,
     << <<"5">>, "Farming & Inputs" >>,
     << <<"6">>, "Health & Care" >>,
     << <<"7">>, "Education & Community" >> >>

TRANSPORT_SUBCATS ==
  << << <<"1">>, "Riders" >>,
     << <<"2">>, "Pickups" >>,
     << <<"3">>, "Lorries" >> >>

PILOT_VILLAGES ==
  << << <<"1">>, "Sega" >>,
     << <<"2">>, "Bumala" >>,
     << <<"3">>, "Murende" >> >>

\* the pagination token "98"
Marker == <<"9", "8">>

(* --------------------------- string helpers ---------------------------- *)

RECURSIVE LStrip(_)
LStrip(s) == IF s = <<>> THEN s
             ELSE IF Head(s) = " " THEN LStrip(Tail(s)) ELSE s

RECURSIVE RStrip(_)
RStrip(s) == IF s = <<>> THEN s
             ELSE IF s[Len(s)] = " " THEN RStrip(SubSeq(s, 1, Len(s) - 1)) ELSE s

\* str.strip()
Strip(s) == RStrip(LStrip(s))

\* str.split("*"): the pieces between the delimiters; "" gives [""]
RECURSIVE Split(_)
Split(s) ==
  IF \A i \in 1..Len(s) : s[i] # "*" THEN << s >>
  ELSE LET i == CHOOSE k \in 1..Len(s) :
                  s[k] = "*" /\ \A j \in 1..(k - 1) : s[j] # "*"
       IN  << SubSeq(s, 1, i - 1) >> \o Split(SubSeq(s, i + 1, Len(s)))

\* text.split("*") if text else []
SplitText(text) == IF text = <<>> THEN <<>> ELSE Split(text)

IsNotMarker(p) == Strip(p) # Marker

\* variant: only a trailing "98" is dropped
SanitizeTrailingOnly(parts) ==
  IF parts # <<>> /\ Strip(parts[Len(parts)]) = Marker
  THEN SubSeq(parts, 1, Len(parts) - 1)
  ELSE parts

\* parts = [p for p in parts if p.strip() != "98"]
Sanitize(parts) == SelectSeq(parts, IsNotMarker)

\* p.replace("+", "").strip()
NotPlus(c) == c # "+"

\* variant: only a "+" in front is removed
normalize_phone_leading_only(p) ==
  IF p # <<>> /\ Head(p) = "+" THEN Strip(Tail(p)) ELSE Strip(p)

normalize_phone(p) == Strip(SelectSeq(p, NotPlus))

(* ------------------------------ lookups -------------------------------- *)

RECURSIVE Lookup(_, _)
Lookup(table, choice) ==
  IF table = <<>> THEN None
  ELSE IF Head(table)[1] = choice THEN Head(table)[2]
  ELSE Lookup(Tail(table), choice)

category_label(choice) == Lookup(PILOT_CATEGORIES, choice)

transport_subcat_label(choice) == Lookup(TRANSPORT_SUBCATS, choice)

village_label(choice) == Lookup(PILOT_VILLAGES, choice)

CategoryKeys == { PILOT_CATEGORIES[i][1] : i \in 1..Len(PILOT_CATEGORIES) }

\* variant: any sub-category that is present is appended to the label
normalize_category_for_storage_any_main(main_cat, transport_subcat) ==
  IF transport_subcat # None /\ transport_subcat # ""
  THEN main_cat \o " - " \o transport_subcat
  ELSE main_cat

normalize_category_for_storage(main_cat, transport_subcat) ==
  IF main_cat # "Transport" THEN main_cat
  ELSE IF transport_subcat # None /\ transport_subcat # ""
       THEN "Transport - " \o transport_subcat
       ELSE "Transport"

\* variant: the legacy value is listed under every sub-category
transport_query_categories_all_legacy(subcat) ==
  IF subcat = "Riders" THEN {"Transport - Riders", "Transport"}
  ELSE IF subcat = "Pickups" THEN {"Transport - Pickups", "Transport"}
  ELSE IF subcat = "Lorries" THEN {"Transport - Lorries", "Transport"}
  ELSE {"Transport"}

transport_query_categories(subcat) ==
  IF subcat = "Riders" THEN {"Transport - Riders"}
  ELSE IF subcat = "Pickups" THEN {"Transport - Pickups", "Transport"}
  ELSE IF subcat = "Lorries" THEN {"Transport - Lorries"}
  ELSE {"Transport"}

(* --------------------------- session store ----------------------------- *)

\* the empty dict {}
EmptyDict == [k \in {} |-> None]

\* d[k] = v
Put(d, k, v) == [x \in (DOMAIN d) \cup {k} |-> IF x = k THEN v ELSE d[x]]

\* d.get(k, dflt)
Get(d, k, dflt) == IF k \in DOMAIN d THEN d[k] ELSE dflt

NewSession == [recent |-> <<>>, add |-> EmptyDict]

\* variant: an unseen session id replaces the store by a new one
get_session_new_store(S, session_id) ==
  IF session_id \in DOMAIN S THEN S
  ELSE [x \in {session_id} |-> NewSession]

\* SESSIONS after get_session(session_id)
get_session(S, session_id) ==
  IF session_id \in DOMAIN S THEN S
  ELSE [x \in (DOMAIN S) \cup {session_id} |->
          IF x = session_id THEN NewSession ELSE S[x]]

\* variant: the list is not cut to RECENT_LIMIT
add_recent_uncapped(session, phone) ==
  IF phone = <<>> THEN session
  ELSE [session EXCEPT !.recent =
          << phone >> \o SelectSeq(session.recent, LAMBDA q : q # phone)]

\* the session after add_recent(session, phone)
add_recent(session, phone) ==
  IF phone = <<>> THEN session
  ELSE LET removed == SelectSeq(session.recent, LAMBDA q : q # phone)
           recent  == << phone >> \o removed
       IN  [session EXCEPT !.recent =
              SubSeq(recent, 1, IF Len(recent) < RECENT_LIMIT
                                THEN Len(recent) ELSE RECENT_LIMIT)]

(* ------------------------------ catalog -------------------------------- *)

Prefix(s, n) == SubSeq(s, 1, IF Len(s) < n THEN Len(s) ELSE n)

RECURSIVE Reverse(_)
Reverse(s) == IF s = <<>> THEN <<>> ELSE Reverse(Tail(s)) \o << Head(s) >>

\* WHERE category IN (...) ORDER BY id DESC LIMIT ? ; the id of a record is
\* its index in DB
list_latest_by_categories(D, categories, limit) ==
  Prefix(Reverse(SelectSeq(D, LAMBDA r : r.category \in categories)), limit)

list_latest_by_category(D, category, limit) ==
  list_latest_by_categories(D, {category}, limit)

\* name, phone are trimmed; the labels carry no surrounding blanks
insert_business(D, name, category, phone, village) ==
  Append(D, [name |-> Strip(name), category |-> category,
             phone |-> Strip(phone), village |-> village])

\* for r in rows[:RECENT_LIMIT]: add_recent(session, r["phone"])
RECURSIVE AddRecentAll(_, _)
AddRecentAll(session, rows) ==
  IF rows = <<>> THEN session
  ELSE AddRecentAll(add_recent(session, Head(rows).phone), Tail(rows))

(* ------------------------------ screens -------------------------------- *)

\* a reply: HTTP status, CON/END tag, the screen shown and its variable part
Reply(tag, screen, title, rows) ==
  [status |-> 200, tag |-> tag, screen |-> screen, title |-> title, rows |-> rows]

Row(name, village, phone) == [name |-> name, village |-> village, phone |-> phone]

\* abort(400, "Missing sessionId")
BadRequest ==
  [status |-> 400, tag |-> "ERR", screen |-> "Missing sessionId",
   title |-> "", rows |-> <<>>]

NoReply ==
  [status |-> 0, tag |-> "", screen |-> "", title |-> "", rows |-> <<>>]

main_menu == Reply("CON", "main_menu", "Village Marketplace (PILOT)", <<>>)

help_menu == Reply("CON", "help", "Help", <<>>)

transport_menu == Reply("CON", "transport_menu", "Transport", <<>>)

\* header, then up to 9 numbered entries or "No listings yet."
format_list(title, rows) ==
  Reply("CON", "list", title,
        [i \in 1..(IF Len(rows) < FORMAT_MAX THEN Len(rows) ELSE FORMAT_MAX) |->
           Row(rows[i].name, rows[i].village, rows[i].phone)])

\* "Recent numbers (this session):" with recent[:RECENT_LIMIT]
recent_screen(recent) ==
  Reply("CON", "recent", "Recent numbers (this session):",
        [i \in 1..Len(Prefix(recent, RECENT_LIMIT)) |-> Row(<<>>, "", recent[i])])

confirm_screen(v, n, c, p) == Reply("CON", "confirm", c, << Row(n, v, p) >>)

\* the result of one request: the stores afterwards and the reply
Res(S, D, r) == [S |-> S, D |-> D, reply |-> r]

SetAdd(S, sid, a) == [S EXCEPT ![sid].add = a]

(* --------------------------- dialog router ----------------------------- *)

\* variant: a trailing "0" at any depth goes to the main menu
TransportBrowseBackHome(S, D, sid, parts) ==
  IF Len(parts) = 1 THEN Res(S, D, transport_menu)
  ELSE IF Strip(parts[Len(parts)]) = <<"0">> THEN Res(S, D, main_menu)
  ELSE LET sub_label == transport_subcat_label(Strip(parts[2]))
       IN  IF sub_label = None
           THEN Res(S, D, Reply("CON", "invalid_transport", "Invalid option.", <<>>))
           ELSE LET rows == list_latest_by_categories(
                              D, transport_query_categories(sub_label), LIST_LIMIT)
                IN  Res([S EXCEPT ![sid] =
                           AddRecentAll(S[sid], Prefix(rows, RECENT_LIMIT))],
                        D,
                        format_list("Transport - " \o sub_label \o " (latest):", rows))

\* if cat == "Transport": the transport sub-menu with back support
TransportBrowse(S, D, sid, parts) ==
  IF Len(parts) = 1 THEN Res(S, D, transport_menu)
  ELSE IF Len(parts) = 2 /\ Strip(parts[2]) = <<"0">> THEN Res(S, D, main_menu)
  ELSE IF Len(parts) >= 3 /\ Strip(parts[Len(parts)]) = <<"0">>
       THEN Res(S, D, transport_menu)
  ELSE LET sub_label == transport_subcat_label(Strip(parts[2]))
       IN  IF sub_label = None
           THEN Res(S, D, Reply("CON", "invalid_transport", "Invalid option.", <<>>))
           ELSE LET rows == list_latest_by_categories(
                              D, transport_query_categories(sub_label), LIST_LIMIT)
                IN  Res([S EXCEPT ![sid] =
                           AddRecentAll(S[sid], Prefix(rows, RECENT_LIMIT))],
                        D,
                        format_list("Transport - " \o sub_label \o " (latest):", rows))

\* variant: only the newest listed number is recorded
CategoryBrowseFirstOnly(S, D, sid, cat) ==
  LET rows == list_latest_by_category(D, cat, LIST_LIMIT)
  IN  Res([S EXCEPT ![sid] = AddRecentAll(S[sid], Prefix(rows, 1))],
          D,
          format_list(cat \o " (latest):", rows))

\* other categories 1-7
CategoryBrowse(S, D, sid, cat) ==
  LET rows == list_latest_by_category(D, cat, LIST_LIMIT)
  IN  Res([S EXCEPT ![sid] = AddRecentAll(S[sid], Prefix(rows, RECENT_LIMIT))],
          D,
          format_list(cat \o " (latest):", rows))

\* variant: the action is always read at parts[4]
ActionOffsetFifth(add_state) == 5

\* the action token of the confirm step: parts[5] in the transport branch,
\* parts[4] otherwise (0-based in the source)
ActionOffset(add_state) ==
  IF Get(add_state, "category_main", None) = "Transport" THEN 6 ELSE 5

\* variant: a successful commit leaves the collected fields in the session
CommitKeepsOnSaved(S, D, sid, phone_number, add_state) ==
  LET v    == Get(add_state, "village", "Bumala")
      n    == Strip(Get(add_state, "name", <<>>))
      main == Get(add_state, "category_main", "")
      sub  == IF main = "Transport" THEN Get(add_state, "category_sub", "") ELSE None
      p    == normalize_phone(phone_number)
  IN  IF ~(v # "" /\ n # <<>> /\ main # "" /\ p # <<>>)
      THEN Res(SetAdd(S, sid, EmptyDict), D,
               Reply("END", "missing_data", "Missing data. Please try again.", <<>>))
      ELSE Res(S,
               insert_business(D, n, normalize_category_for_storage(main, sub), p, v),
               Reply("END", "saved", "Saved! You are now listed. Thank you.", <<>>))

\* variant: a failed commit leaves the collected fields in the session
CommitKeepsOnMissing(S, D, sid, phone_number, add_state) ==
  LET v    == Get(add_state, "village", "Bumala")
      n    == Strip(Get(add_state, "name", <<>>))
      main == Get(add_state, "category_main", "")
      sub  == IF main = "Transport" THEN Get(add_state, "category_sub", "") ELSE None
      p    == normalize_phone(phone_number)
  IN  IF ~(v # "" /\ n # <<>> /\ main # "" /\ p # <<>>)
      THEN Res(S, D,
               Reply("END", "missing_data", "Missing data. Please try again.", <<>>))
      ELSE Res(SetAdd(S, sid, EmptyDict),
               insert_business(D, n, normalize_category_for_storage(main, sub), p, v),
               Reply("END", "saved", "Saved! You are now listed. Thank you.", <<>>))

\* variant: the record is stored without the completeness check
CommitUnchecked(S, D, sid, phone_number, add_state) ==
  LET v    == Get(add_state, "village", "Bumala")
      n    == Strip(Get(add_state, "name", <<>>))
      main == Get(add_state, "category_main", "")
      sub  == IF main = "Transport" THEN Get(add_state, "category_sub", "") ELSE None
      p    == normalize_phone(phone_number)
  IN  Res(SetAdd(S, sid, EmptyDict),
          insert_business(D, n, normalize_category_for_storage(main, sub), p, v),
          Reply("END", "saved", "Saved! You are now listed. Thank you.", <<>>))

\* if action == "1": assemble the record, check it, store it
Commit(S, D, sid, phone_number, add_state) ==
  LET v    == Get(add_state, "village", "Bumala")
      n    == Strip(Get(add_state, "name", <<>>))
      main == Get(add_state, "category_main", "")
      sub  == IF main = "Transport" THEN Get(add_state, "category_sub", "") ELSE None
      p    == normalize_phone(phone_number)
  IN  IF ~(v # "" /\ n # <<>> /\ main # "" /\ p # <<>>)
      THEN Res(SetAdd(S, sid, EmptyDict), D,
               Reply("END", "missing_data", "Missing data. Please try again.", <<>>))
      ELSE Res(SetAdd(S, sid, EmptyDict),
               insert_business(D, n, normalize_category_for_storage(main, sub), p, v),
               Reply("END", "saved", "Saved! You are now listed. Thank you.", <<>>))

\* variant: cancelling leaves the collected fields in the session
ConfirmStepKeepsWizard(S, D, sid, phone_number, parts, add_state) ==
  IF ActionOffset(add_state) = 6 /\ Len(parts) < 6
  THEN Res(S, D, Reply("CON", "choose_confirm",
                       "Choose 1 to confirm or 2 to cancel.", <<>>))
  ELSE LET action == Strip(parts[ActionOffset(add_state)])
       IN  IF action = <<"2">>
           THEN Res(S, D, Reply("END", "cancelled", "Cancelled.", <<>>))
           ELSE IF action = <<"1">>
           THEN Commit(S, D, sid, phone_number, add_state)
           ELSE Res(S, D, Reply("CON", "invalid_confirm", "Invalid option.", <<>>))

\* variant: an invalid action starts the wizard over
ConfirmStepResetsOnInvalid(S, D, sid, phone_number, parts, add_state) ==
  IF ActionOffset(add_state) = 6 /\ Len(parts) < 6
  THEN Res(S, D, Reply("CON", "choose_confirm",
                       "Choose 1 to confirm or 2 to cancel.", <<>>))
  ELSE LET action == Strip(parts[ActionOffset(add_state)])
       IN  IF action = <<"2">>
           THEN Res(SetAdd(S, sid, EmptyDict), D,
                    Reply("END", "cancelled", "Cancelled.", <<>>))
           ELSE IF action = <<"1">>
           THEN Commit(S, D, sid, phone_number, add_state)
           ELSE Res(SetAdd(S, sid, EmptyDict), D,
                    Reply("CON", "invalid_confirm", "Invalid option.", <<>>))

\* if len(parts) >= 5: confirm / cancel
ConfirmStep(S, D, sid, phone_number, parts, add_state) ==
  IF ActionOffset(add_state) = 6 /\ Len(parts) < 6
  THEN Res(S, D, Reply("CON", "choose_confirm",
                       "Choose 1 to confirm or 2 to cancel.", <<>>))
  ELSE LET action == Strip(parts[ActionOffset(add_state)])
       IN  IF action = <<"2">>
           THEN Res(SetAdd(S, sid, EmptyDict), D,
                    Reply("END", "cancelled", "Cancelled.", <<>>))
           ELSE IF action = <<"1">>
           THEN Commit(S, D, sid, phone_number, add_state)
           ELSE Res(S, D, Reply("CON", "invalid_confirm", "Invalid option.", <<>>))

\* if choice == "8": the Add / Update wizard
Wizard(S, D, sid, phone_number, parts) ==
  LET add_state == S[sid].add
  IN  IF Len(parts) = 1
      THEN Res(SetAdd(S, sid, EmptyDict), D,
               Reply("CON", "choose_village", "Choose your village:", <<>>))
      ELSE IF Len(parts) = 2
      THEN LET v_label == village_label(Strip(parts[2]))
           IN  IF v_label = None
               THEN Res(S, D, Reply("CON", "invalid_village",
                                    "Invalid village. Choose 1-3.", <<>>))
               ELSE Res(SetAdd(S, sid, Put(add_state, "village", v_label)), D,
                        Reply("CON", "enter_name", "Enter business name:", <<>>))
      ELSE IF Len(parts) = 3
      THEN LET name == Strip(parts[3])
           IN  IF name = <<>>
               THEN Res(S, D, Reply("CON", "empty_name",
                                    "Please enter a business name:", <<>>))
               ELSE Res(SetAdd(S, sid, Put(add_state, "name", name)), D,
                        Reply("CON", "choose_category", "Choose category:", <<>>))
      ELSE IF Len(parts) = 4
      THEN LET cat_label == category_label(Strip(parts[4]))
           IN  IF cat_label = None
               THEN Res(S, D, Reply("CON", "invalid_category",
                                    "Invalid category. Choose 1-7.", <<>>))
               ELSE LET a2 == Put(add_state, "category_main", cat_label)
                    IN  IF cat_label = "Transport"
                        THEN Res(SetAdd(S, sid, a2), D,
                                 Reply("CON", "transport_type", "Transport type:", <<>>))
                        ELSE Res(SetAdd(S, sid, a2), D,
                                 confirm_screen(Get(a2, "village", "Bumala"),
                                                Get(a2, "name", <<>>),
                                                cat_label,
                                                normalize_phone(phone_number)))
      ELSE IF Len(parts) = 5 /\ Get(add_state, "category_main", None) = "Transport"
      THEN LET sub_label == transport_subcat_label(Strip(parts[5]))
           IN  IF sub_label = None
               THEN Res(S, D, Reply("CON", "invalid_subcat", "Invalid option.", <<>>))
               ELSE LET a2 == Put(add_state, "category_sub", sub_label)
                    IN  Res(SetAdd(S, sid, a2), D,
                            confirm_screen(Get(a2, "village", "Bumala"),
                                           Get(a2, "name", <<>>),
                                           normalize_category_for_storage(
                                             "Transport", sub_label),
                                           normalize_phone(phone_number)))
      ELSE ConfirmStep(S, D, sid, phone_number, parts, add_state)

\* variant: "0" shows the help screen whatever follows it
RouteZeroIsHelp(S, D, sid, phone_number, parts) ==
  IF Len(parts) = 0 \/ parts = << <<>> >> THEN Res(S, D, main_menu)
  ELSE LET choice == Strip(parts[1])
       IN  IF choice = <<"0">>
           THEN Res(S, D, help_menu)
           ELSE IF choice = <<"9">>
           THEN Res(S, D, recent_screen(S[sid].recent))
           ELSE LET cat == category_label(choice)
                IN  IF cat = "Transport" THEN TransportBrowse(S, D, sid, parts)
                    ELSE IF cat # None /\ choice \in CategoryKeys
                    THEN CategoryBrowse(S, D, sid, cat)
                    ELSE IF choice = <<"8">>
                    THEN Wizard(S, D, sid, phone_number, parts)
                    ELSE Res(S, D, main_menu)

\* the dispatch on the sanitized parts, after get_session
Route(S, D, sid, phone_number, parts) ==
  IF Len(parts) = 0 \/ parts = << <<>> >> THEN Res(S, D, main_menu)
  ELSE LET choice == Strip(parts[1])
       IN  IF choice = <<"0">>
           THEN (IF Len(parts) = 1 THEN Res(S, D, help_menu) ELSE Res(S, D, main_menu))
           ELSE IF choice = <<"9">>
           THEN Res(S, D, recent_screen(S[sid].recent))
           ELSE LET cat == category_label(choice)
                IN  IF cat = "Transport" THEN TransportBrowse(S, D, sid, parts)
                    ELSE IF cat # None /\ choice \in CategoryKeys
                    THEN CategoryBrowse(S, D, sid, cat)
                    ELSE IF choice = <<"8">>
                    THEN Wizard(S, D, sid, phone_number, parts)
                    ELSE Res(S, D, main_menu)

\* the sanitized step sequence of a raw text
PartsOf(text) == Sanitize(SplitText(Strip(text)))

\* variant: the session is looked up before the session id is checked
ussd_lookup_first(S, D, r) ==
  LET session_id   == Strip(r.sessionId)
      phone_number == Strip(r.phoneNumber)
  IN  IF session_id = <<>> THEN Res(get_session(S, session_id), D, BadRequest)
      ELSE Route(get_session(S, session_id), D, session_id, phone_number,
                 PartsOf(r.text))

\* POST /ussd : the whole handler
ussd(S, D, r) ==
  LET session_id   == Strip(r.sessionId)
      phone_number == Strip(r.phoneNumber)
  IN  IF session_id = <<>> THEN Res(S, D, BadRequest)
      ELSE Route(get_session(S, session_id), D, session_id, phone_number,
                 PartsOf(r.text))

(* ------------------------------ inputs --------------------------------- *)

\* "a*b*c" from its tokens
RECURSIVE Join(_)
Join(toks) ==
  IF toks = <<>> THEN <<>>
  ELSE IF Len(toks) = 1 THEN toks[1]
  ELSE toks[1] \o <<"*">> \o Join(Tail(toks))

Prefixes(toks) == { SubSeq(toks, 1, n) : n \in 1..Len(toks) }

\* the callers: a session id with the phone identifier the gateway sends for
\* it (an international number; a number the gateway left out)
Callers == { << <<"s">>, <<"+", "7">> >>, << <<"t">>, <<>> >> }

Sids == { c[1] : c \in Callers }

Phones == { c[2] : c \in Callers }

\* answers typed at the wizard's steps: valid and invalid ones
VillageTokens  == { <<"1">>, <<"9">> }
NameTokens     == { <<"A">>, <<" ">> }
CategoryTokens == { <<"1">>, <<"3">>, <<"9">> }
FifthTokens    == { <<"1">>, <<"2">>, <<"9">> }
SixthTokens    == { <<"1">>, <<"2">>, <<"9">> }

\* accumulated wizard inputs: each step answered validly or not after valid
\* earlier answers, and the dialogs that go on after an invalid answer
WizardSeqs ==
  { << <<"8">> >> }
  \cup { << <<"8">>, v >> : v \in VillageTokens }
  \cup { << <<"8">>, <<"1">>, n >> : n \in NameTokens }
  \cup { << <<"8">>, <<"1">>, <<"A">>, c >> : c \in CategoryTokens }
  \cup { << <<"8">>, <<"1">>, <<"A">>, c, x >> :
           c \in CategoryTokens, x \in FifthTokens }
  \cup { << <<"8">>, <<"1">>, <<"A">>, <<"3">>, x, y >> :
           x \in FifthTokens \ { <<"1">> }, y \in SixthTokens }
  \cup Prefixes(<< <<"8">>, <<"9">>, <<"A">>, <<"1">>, <<"1">> >>)
  \cup Prefixes(<< <<"8">>, <<"1">>, <<" ">>, <<"1">>, <<"1">> >>)

BrowseSeqs ==
  { <<>>,
    << <<"0">> >>, << <<"0">>, <<"1">> >>,
    << <<"9">> >>, << <<"9">>, <<"0">> >>,
    << <<"1">> >>, << <<"1">>, <<"0">> >>, << <<"7">> >>,
    << <<"3">> >>, << <<"3">>, <<"0">> >>, << <<"3">>, <<"1">> >>,
    << <<"3">>, <<"2">> >>, << <<"3">>, <<"3">> >>, << <<"3">>, <<"9">> >>,
    << <<"3">>, <<"1">>, <<"0">> >>, << <<"3">>, <<"9">>, <<"0">> >>,
    << <<"3">>, <<"2">>, <<"1">> >>,
    << <<"A">> >>, << <<>>, <<>> >> }

\* sequences into which the gateway injected its "98"
MarkerSeqs ==
  { << Marker >>,
    << Marker, <<"3">>, Marker, <<"2">> >>,
    << <<"3">>, <<"2">>, Marker, <<"0">> >>,
    << <<"3">>, <<" ", "9", "8", " ">>, <<"1">> >>,
    << <<"8">>, <<"1">>, Marker, <<"A">> >>,
    << <<"8">>, <<"1">>, <<"A">>, Marker, <<"1">> >>,
    << <<"8">>, <<"1">>, <<"A">>, <<"1">>, Marker, <<"1">> >>,
    << <<"8">>, <<"1">>, <<"A">>, <<"3">>, Marker, <<"2">>, <<"1">> >> }

Texts == { Join(t) : t \in WizardSeqs \cup BrowseSeqs \cup MarkerSeqs }

\* what the caller without a phone identifier types: one browse and a
\* wizard dialog up to its confirm step
OtherSeqs ==
  { << <<"1">> >> }
  \cup Prefixes(<< <<"8">>, <<"1">>, <<"A">>, <<"1">>, <<"1">> >>)

OtherTexts == { Join(t) : t \in OtherSeqs }

TextsOf(sid) == IF sid = <<"s">> THEN Texts ELSE OtherTexts

Request(sid, phone, text) == [sessionId |-> sid, phoneNumber |-> phone, text |-> text]

\* requests whose sessionId is absent or blank
BadRequests ==
  { Request(<<>>, <<"+", "7">>, <<"8">>), Request(<<" ">>, <<>>, <<"1">>) }

\* wizard turns of caller s that arrive with a number holding a second "+"
OddPhoneRequests ==
  { Request(<<"s">>, <<"+", "7", "+", "1">>, Join(t)) :
      t \in { << <<"8">>, <<"1">>, <<"A">>, <<"1">> >>,
              << <<"8">>, <<"1">>, <<"A">>, <<"1">>, <<"1">> >> } }

Requests ==
  UNION { { Request(c[1], c[2], t) : t \in TextsOf(c[1]) } : c \in Callers }
  \cup BadRequests \cup OddPhoneRequests

NoRequest == Request(<<>>, <<>>, <<>>)

\* the catalog found at start-up: market.db outlives the process
SeedDB ==
  << [name |-> <<"a">>, category |-> "Shops & Daily Needs", phone |-> <<"1">>, village |-> "Sega"],
     [name |-> <<"b">>, category |-> "Transport", phone |-> <<"2">>, village |-> "Bumala"],
     [name |-> <<"c">>, category |-> "Transport - Pickups", phone |-> <<"3">>, village |-> "Bumala"],
     [name |-> <<"d">>, category |-> "Shops & Daily Needs", phone |-> <<"4">>, village |-> "Murende"],
     [name |-> <<"e">>, category |-> "Transport - Riders", phone |-> <<"5">>, village |-> "Sega"],
     [name |-> <<"f">>, category |-> "Transport - Pickups", phone |-> <<"6">>, village |-> "Sega"],
     [name |-> <<"g">>, category |-> "Shops & Daily Needs", phone |-> <<"8">>, village |-> "Bumala"],
     [name |-> <<"h">>, category |-> "Transport - Lorries", phone |-> <<"5">>, village |-> "Murende"] >>

(* ------------------------------ actions -------------------------------- *)

\* SESSIONS = {} ; no request in flight
Init ==
  /\ SESSIONS = EmptyDict
  /\ DB = SeedDB
  /\ pc = "idle"
  /\ req = NoRequest
  /\ tokens = <<>>
  /\ reply = NoReply
  /\ turns = 0
  /\ workers = <<>>

\* one POST /ussd, handled to completion
Handle ==
  /\ pc = "idle"
  /\ turns < MaxTurns
  /\ \E r \in Requests :
       LET res == ussd(SESSIONS, DB, r)
       IN  /\ SESSIONS' = res.S
           /\ DB' = res.D
           /\ reply' = res.reply
           /\ req' = r
           /\ tokens' = PartsOf(r.text)
  /\ pc' = "done"
  /\ turns' = turns + 1
  /\ UNCHANGED workers

\* the reply leaves the server
Respond ==
  /\ pc = "done"
  /\ pc' = "idle"
  /\ req' = NoRequest
  /\ tokens' = <<>>
  /\ reply' = NoReply
  /\ UNCHANGED <<SESSIONS, DB, turns, workers>>

Next == Handle \/ Respond

Spec == Init /\ [][Next]_vars

(* ------------------- the tokenizer / sanitizer alone ------------------- *)

RawChars == { "9", "8", "*", " ", "1" }

RawTexts == UNION { [1..n -> RawChars] : n \in 0..MaxRaw }

\* a request with an arbitrary raw text has arrived
InitSanitize ==
  /\ SESSIONS = EmptyDict
  /\ DB = SeedDB
  /\ pc = "raw"
  /\ req \in { Request(<<"s">>, <<"+", "7">>, t) : t \in RawTexts }
  /\ tokens = <<>>
  /\ reply = NoReply
  /\ turns = 0
  /\ workers = <<>>

\* lines 316-328 of ussd(): trim, split, drop the "98" tokens
Tokenize ==
  /\ pc = "raw"
  /\ tokens' = PartsOf(req.text)
  /\ pc' = "tokenized"
  /\ UNCHANGED <<SESSIONS, DB, req, reply, turns, workers>>

NextSanitize == Tokenize

SpecSanitize == InitSanitize /\ [][NextSanitize]_vars

(* --------------------- the category resolution alone -------------------- *)

MainLabels ==
  { PILOT_CATEGORIES[i][2] : i \in 1..Len(PILOT_CATEGORIES) } \cup { "", "transport", "Transport - Riders" }

SubLabels ==
  { TRANSPORT_SUBCATS[i][2] : i \in 1..Len(TRANSPORT_SUBCATS) } \cup { None, "", " ", "Boats", "Transport" }

\* a call normalize_category_for_storage(main_cat, transport_subcat) is about
\* to be made; req holds its arguments
InitResolve ==
  /\ SESSIONS = EmptyDict
  /\ DB = SeedDB
  /\ pc = "call"
  /\ req \in [main_cat : MainLabels, transport_subcat : SubLabels]
  /\ tokens = <<>>
  /\ reply = NoReply
  /\ turns = 0
  /\ workers = <<>>

\* the call returns; reply holds the returned label
Resolve ==
  /\ pc = "call"
  /\ reply' = normalize_category_for_storage(req.main_cat, req.transport_subcat)
  /\ pc' = "returned"
  /\ UNCHANGED <<SESSIONS, DB, req, tokens, turns, workers>>

NextResolve == Resolve

SpecResolve == InitResolve /\ [][NextResolve]_vars

(* ------------------ requests answered at the same time ----------------- *)

\* the store when the threads start: s and t are about to confirm a record,
\* u and v have not been seen yet
StartSessions ==
  [x \in { <<"s">>, <<"t">> } |->
     IF x = <<"s">>
     THEN [recent |-> <<>>,
           add |-> Put(Put(Put(EmptyDict, "village", "Sega"), "name", <<"A">>),
                       "category_main", "Shops & Daily Needs")]
     ELSE [recent |-> <<>>,
           add |-> Put(Put(Put(Put(EmptyDict, "village", "Murende"), "name", <<"B">>),
                           "category_main", "Transport"), "category_sub", "Pickups")]]

\* one thread per session id
WorkerIds == { <<"s">>, <<"t">>, <<"u">>, <<"v">> }

\* the request a thread may be answering: a commit or a browse for s and t,
\* a browse or a wizard turn for u and v
WorkerRequests(w) ==
  IF w = <<"s">>
  THEN { Request(w, <<"+", "7">>, Join(<< <<"8">>, <<"1">>, <<"A">>, <<"1">>, <<"1">> >>)),
         Request(w, <<"+", "7">>, <<"1">>) }
  ELSE IF w = <<"t">>
  THEN { Request(w, <<"+", "9">>,
                 Join(<< <<"8">>, <<"3">>, <<"B">>, <<"3">>, <<"2">>, <<"1">> >>)),
         Request(w, <<"+", "9">>, Join(<< <<"3">>, <<"2">> >>)) }
  ELSE IF w = <<"u">>
  THEN { Request(w, <<>>, <<"1">>), Request(w, <<>>, Join(<< <<"8">>, <<"1">> >>)) }
  ELSE { Request(w, <<"+", "4">>, Join(<< <<"3">>, <<"2">> >>)),
         Request(w, <<"+", "4">>, <<"9">>) }

\* a thread that has received its request and has done nothing yet
NewWorker(r) ==
  [pc |-> "lookup", req |-> r, session |-> NewSession, out |-> NewSession,
   reply |-> NoReply]

InitConcurrent ==
  /\ SESSIONS = StartSessions
  /\ DB = SeedDB
  /\ pc = "threads"
  /\ req = NoRequest
  /\ tokens = <<>>
  /\ reply = NoReply
  /\ turns = 0
  /\ workers \in { f \in [WorkerIds -> { NewWorker(r) : r \in UNION { WorkerRequests(w) : w \in WorkerIds } }] :
                     \A w \in WorkerIds : f[w].req \in WorkerRequests(w) }

\* get_session, line 114: if session_id not in SESSIONS
LookupSession(w) ==
  /\ workers[w].pc = "lookup"
  /\ workers' = [workers EXCEPT ![w].pc =
                   IF Strip(workers[w].req.sessionId) \in DOMAIN SESSIONS
                   THEN "read" ELSE "create"]
  /\ UNCHANGED <<SESSIONS, DB, pc, req, tokens, reply, turns>>

\* variant: the new entry is put into the store as it was when the threads
\* started
CreateInStaleCopy(w) ==
  /\ workers[w].pc = "create"
  /\ SESSIONS' = [x \in DOMAIN StartSessions \cup { Strip(workers[w].req.sessionId) } |->
                    IF x = Strip(workers[w].req.sessionId) THEN NewSession
                    ELSE StartSessions[x]]
  /\ workers' = [workers EXCEPT ![w].pc = "read"]
  /\ UNCHANGED <<DB, pc, req, tokens, reply, turns>>

\* get_session, line 115: SESSIONS[session_id] = {"recent": [], "add": {}}
\* one item assignment on the shared dict
Create(w) ==
  /\ workers[w].pc = "create"
  /\ SESSIONS' = [x \in DOMAIN SESSIONS \cup { Strip(workers[w].req.sessionId) } |->
                    IF x = Strip(workers[w].req.sessionId) THEN NewSession
                    ELSE SESSIONS[x]]
  /\ workers' = [workers EXCEPT ![w].pc = "read"]
  /\ UNCHANGED <<DB, pc, req, tokens, reply, turns>>

\* get_session, line 116, and the reads of session["add"] / session["recent"]
ReadState(w) ==
  /\ workers[w].pc = "read"
  /\ workers' = [workers EXCEPT ![w].pc = "store",
                                ![w].session = SESSIONS[Strip(workers[w].req.sessionId)]]
  /\ UNCHANGED <<SESSIONS, DB, pc, req, tokens, reply, turns>>

\* the one catalog call of the request (a listing or the insert), made with
\* the session values read before; a request without a catalog call passes
StoreCall(w) ==
  /\ workers[w].pc = "store"
  /\ LET sid == Strip(workers[w].req.sessionId)
         res == ussd([x \in {sid} |-> workers[w].session], DB, workers[w].req)
     IN  /\ DB' = res.D
         /\ workers' = [workers EXCEPT ![w].pc = "write",
                                       ![w].out = res.S[sid],
                                       ![w].reply = res.reply]
  /\ UNCHANGED <<SESSIONS, pc, req, tokens, reply, turns>>

\* session["add"] = ... / session["recent"] = ... on the thread's own entry,
\* then the reply is returned
WriteState(w) ==
  /\ workers[w].pc = "write"
  /\ SESSIONS' = [SESSIONS EXCEPT ![Strip(workers[w].req.sessionId)] = workers[w].out]
  /\ workers' = [workers EXCEPT ![w].pc = "done"]
  /\ UNCHANGED <<DB, pc, req, tokens, reply, turns>>

NextConcurrent ==
  \E w \in WorkerIds :
    LookupSession(w) \/ Create(w) \/ ReadState(w) \/ StoreCall(w) \/ WriteState(w)

SpecConcurrent == InitConcurrent /\ [][NextConcurrent]_vars

(* ------------------------------- claims -------------------------------- *)

StarPositions(s) == { k \in 1..Len(s) : s[k] = "*" }

\* position of the n-th delimiter of s; 0 before the first, Len(s)+1 after the last
NthStar(s, n) ==
  IF n = 0 THEN 0
  ELSE IF n > Cardinality(StarPositions(s)) THEN Len(s) + 1
  ELSE CHOOSE k \in StarPositions(s) :
         Cardinality({ j \in StarPositions(s) : j <= k }) = n

\* the "*"-separated tokens of a text, stated without Split; none for ""
TokensOf(s) ==
  IF s = <<>> THEN <<>>
  ELSE [i \in 1..(Cardinality(StarPositions(s)) + 1) |->
          SubSeq(s, NthStar(s, i - 1) + 1, NthStar(s, i) - 1)]

DiffersFromMarker(t) == t # Marker

TrimmedDiffersFromMarker(t) == Strip(t) # Marker

\* C2 as worded: the sanitizer's output is the subsequence of the tokens of
\* the (trimmed) text that are not exactly "98", in order, and sanitizing
\* that output again changes nothing.
C2_Original ==
  pc = "tokenized" =>
    /\ tokens = SelectSeq(TokensOf(Strip(req.text)), DiffersFromMarker)
    /\ Sanitize(tokens) = tokens

\* C2 amended: the output is the subsequence of the tokens of the trimmed
\* text whose own trimmed value is not "98", in order (none for an empty
\* text); a token is dropped iff it equals "98" once trimmed; sanitizing the
\* output again changes nothing.
C2_SanitizerOutput ==
  pc = "tokenized" =>
    /\ tokens = SelectSeq(TokensOf(Strip(req.text)), TrimmedDiffersFromMarker)
    /\ Sanitize(tokens) = tokens
    /\ (Strip(req.text) = <<>> => tokens = <<>>)

\* "1* 98": a real token is kept, a padded marker is dropped
C2_Witness ==
  /\ pc = "tokenized"
  /\ req.text = <<"1", "*", " ", "9", "8">>
  /\ tokens = << <<"1">> >>

\* a step of the handler: a request is taken and answered
HandleStep == pc = "idle" /\ pc' = "done"

InsertAt(toks, i, t) == SubSeq(toks, 1, i) \o << t >> \o SubSeq(toks, i + 1, Len(toks))

InsertionsInto(toks) == { Join(InsertAt(toks, i, Marker)) : i \in 0..Len(toks) }

\* the texts obtained by injecting one "98" before, between or after the
\* tokens of a text
MarkerInsertions(text) ==
  InsertionsInto(TokensOf(text))
  \cup (IF text = <<>> THEN InsertionsInto(<< <<>> >>) ELSE {})

\* C1: a request and the same request with a "98" injected at any position
\* get the same reply and leave the same sessions and catalog.
C1_PaginationResilience ==
  [][HandleStep =>
       \A t \in MarkerInsertions(req'.text) :
         LET res == ussd(SESSIONS, DB, [req' EXCEPT !.text = t])
         IN  /\ res.reply = reply'
             /\ res.S = SESSIONS'
             /\ res.D = DB']_vars

\* a commit reached through a text that carries an injected marker
C1_Witness ==
  /\ pc = "done"
  /\ \E i \in 1..Len(TokensOf(req.text)) : TokensOf(req.text)[i] = Marker
  /\ reply.screen = "saved"
  /\ Len(DB) = Len(SeedDB) + 1

NoDuplicates(s) == \A i, j \in 1..Len(s) : i # j => s[i] # s[j]

Range(s) == { s[i] : i \in 1..Len(s) }

\* phone identifiers that can be added: those of the catalog, the callers'
\* and one never seen
PhonePool ==
  { SeedDB[i].phone : i \in 1..Len(SeedDB) }
  \cup { normalize_phone(ph) : ph \in Phones } \cup { <<"0">> }

\* the session a request for sid works on: the stored one, or a new one
SessionOf(S, sid) == IF sid \in DOMAIN S THEN S[sid] ELSE NewSession

\* C3: every session's recent list has at most 5 entries and no duplicates;
\* after a browse the last number added is first; and add_recent(session, p)
\* with non-empty p puts p first, moving it when it was already listed.
C3_RecentInvariant ==
  /\ \A sid \in DOMAIN SESSIONS :
       LET r == SESSIONS[sid].recent
       IN  /\ Len(r) <= RECENT_LIMIT
           /\ NoDuplicates(r)
           /\ \A p \in PhonePool \ { <<>> } :
                LET r2 == add_recent(SESSIONS[sid], p).recent
                IN  /\ r2[1] = p
                    /\ Len(r2) <= RECENT_LIMIT
                    /\ NoDuplicates(r2)
                    /\ (p \in Range(r) =>
                          Len(r2) = Len(r) /\ Range(r2) = Range(r))
  /\ (pc = "done" /\ reply.screen = "list" /\ reply.rows # <<>> =>
        LET shown == Prefix(reply.rows, RECENT_LIMIT)
        IN  SESSIONS[Strip(req.sessionId)].recent[1] = shown[Len(shown)].phone)

\* two browses offered six distinct numbers: the list is full and the oldest
\* number fell out
C3_Witness ==
  /\ pc = "done"
  /\ reply.screen = "list"
  /\ <<"s">> \in DOMAIN SESSIONS
  /\ SESSIONS[<<"s">>].recent = << <<"2">>, <<"3">>, <<"6">>, <<"1">>, <<"4">> >>

\* the turns of one caller: the texts are delivered one after the other
RECURSIVE Deliver(_, _, _, _, _)
Deliver(S, D, sid, phone, texts) ==
  IF texts = <<>> THEN [S |-> S, D |-> D, replies |-> <<>>]
  ELSE LET r    == ussd(S, D, Request(sid, phone, Head(texts)))
           rest == Deliver(r.S, r.D, sid, phone, Tail(texts))
       IN  [S |-> rest.S, D |-> rest.D, replies |-> << r.reply >> \o rest.replies]

\* the accumulated texts of a dialog that types toks one token per turn
TurnsOf(toks) == [i \in 1..Len(toks) |-> Join(SubSeq(toks, 1, i))]

VillageOfCode == [k \in {"1", "2", "3"} |->
                    IF k = "1" THEN "Sega" ELSE IF k = "2" THEN "Bumala" ELSE "Murende"]

SubOfCode == [k \in {"1", "2", "3"} |->
                IF k = "1" THEN "Riders" ELSE IF k = "2" THEN "Pickups" ELSE "Lorries"]

MainOfCode == [k \in {"1", "2", "4", "7"} |->
                 IF k = "1" THEN "Shops & Daily Needs"
                 ELSE IF k = "2" THEN "Food & Drinks"
                 ELSE IF k = "4" THEN "Services (Fundis)"
                 ELSE "Education & Community"]

\* the tokens of a complete wizard dialog; s is typed only for Transport
HappyTokens(v, n, c, s) ==
  << <<"8">>, << v >>, n, << c >> >>
     \o (IF c = "3" THEN << << s >> >> ELSE <<>>) \o << <<"1">> >>

HappyCategory(c, s) ==
  IF c = "3" THEN "Transport - " \o SubOfCode[s] ELSE MainOfCode[c]

\* category code and, for Transport, sub-category code
HappyChoices ==
  { <<"1", "1">>, <<"7", "1">>, <<"3", "1">>, <<"3", "2">>, <<"3", "3">> }

WithoutLeadingPlus(ph) == IF ph # <<>> /\ Head(ph) = "+" THEN Tail(ph) ELSE ph

WithoutPlus(ph) == Strip(SelectSeq(ph, LAMBDA ch : ch # "+"))

\* session ids no request has named yet
FreshSids == (Sids \cup { <<"u">> }) \ DOMAIN SESSIONS

\* caller phone, village code and name of the dialogs tried: plain ones, and
\* a phone with an inner "+" with a name typed after a blank
HappyDialogs ==
  { << <<"+", "7">>, "1", <<"A">> >>,
    << <<"7", "+", "1">>, "3", <<" ", "B">> >>,
    << <<"+", "7">>, "2", <<"B", " ", "o">> >> }

\* the dialog v, n, c, [s,] 1 on a fresh session: all turns but the last
\* continue, the last says Saved, and the catalog gains exactly rec
HappyPathHolds(sid, ph, v, n, c, s, rec) ==
  LET toks == HappyTokens(v, n, c, s)
      out  == Deliver(SESSIONS, DB, sid, ph, TurnsOf(toks))
  IN  /\ \A i \in 1..(Len(toks) - 1) : out.replies[i].tag = "CON"
      /\ out.replies[Len(toks)].tag = "END"
      /\ out.replies[Len(toks)].screen = "saved"
      /\ out.D = Append(DB, rec)

\* C4 as worded: for every caller phone, the record's phone being the
\* caller's phone without its leading "+".
C4_Original ==
  pc = "idle" =>
    \A sid \in FreshSids, ph \in Phones, v \in {"1", "3"}, cs \in HappyChoices :
      HappyPathHolds(sid, ph, v, <<"A">>, cs[1], cs[2],
                     [name |-> <<"A">>, village |-> VillageOfCode[v],
                      phone |-> WithoutLeadingPlus(ph),
                      category |-> HappyCategory(cs[1], cs[2])])

\* C4 amended: on a fresh session, for a caller phone that is not empty once
\* its "+" characters are removed, and a name that is not blank and not
\* "98", the turns 8, v, n, c, [s,] 1 all continue but the last, which says
\* Saved, and exactly one record is inserted: name n trimmed, village
\* label(v), phone = caller phone with every "+" removed, category label(c)
\* or "Transport - " + label(s).
C4_WizardHappyPath ==
  pc = "idle" =>
    \A sid \in FreshSids, d \in HappyDialogs, cs \in HappyChoices :
      HappyPathHolds(sid, d[1], d[2], d[3], cs[1], cs[2],
                     [name |-> Strip(d[3]), village |-> VillageOfCode[d[2]],
                      phone |-> WithoutPlus(d[1]),
                      category |-> HappyCategory(cs[1], cs[2])])

\* the dialog 8*1, 8*1*A, 8*1*A*1, 8*1*A*1*1 has just been answered "Saved"
C4_Witness ==
  /\ pc = "done"
  /\ req.text = Join(<< <<"8">>, <<"1">>, <<"A">>, <<"1">>, <<"1">> >>)
  /\ reply.screen = "saved"
  /\ DB = Append(SeedDB, [name |-> <<"A">>, village |-> "Sega", phone |-> <<"7">>,
                          category |-> "Shops & Daily Needs"])

\* the session id and phone identifier the handler works with
SidOf(r) == Strip(r.sessionId)

PhoneOf(r) == Strip(r.phoneNumber)

\* the request being answered is a wizard turn
IsWizardTurn(toks) == toks # <<>> /\ Strip(toks[1]) = <<"8">>

\* position of the confirm action in the step sequence: the 6th token when
\* the stored categoryMain is Transport, the 5th otherwise
ConfirmPosition(add_state) ==
  IF "category_main" \in DOMAIN add_state /\ add_state["category_main"] = "Transport"
  THEN 6 ELSE 5

\* the turn reads toks[ConfirmPosition] as its confirm action and finds a
HasConfirmAction(toks, add_state, a) ==
  /\ IsWizardTurn(toks)
  /\ Len(toks) >= ConfirmPosition(add_state)
  /\ Strip(toks[ConfirmPosition(add_state)]) = a

\* C5: a wizard turn whose confirm action is "2" is answered END Cancelled,
\* inserts nothing and empties the wizard state; "8" sent next in that
\* session gets the village prompt, the wizard state still empty.
C5_Cancel ==
  [][HandleStep /\ SidOf(req') # <<>>
       /\ HasConfirmAction(tokens', SessionOf(SESSIONS, SidOf(req')).add, <<"2">>)
     => /\ reply'.tag = "END"
        /\ reply'.screen = "cancelled"
        /\ DB' = DB
        /\ SESSIONS'[SidOf(req')].add = EmptyDict
        /\ LET again == ussd(SESSIONS', DB', [req' EXCEPT !.text = <<"8">>])
           IN  /\ again.reply.tag = "CON"
               /\ again.reply.screen = "choose_village"
               /\ again.S[SidOf(req')].add = EmptyDict
               /\ again.D = DB]_vars

\* a transport dialog with village, name and category stored was cancelled
\* by its 6th token
C5_Witness ==
  /\ pc = "done"
  /\ reply.screen = "cancelled"
  /\ Len(tokens) = 6
  /\ tokens[6] = <<"2">>
  /\ tokens[5] # <<"2">>
  /\ SESSIONS[SidOf(req)].add = EmptyDict
  /\ DB = SeedDB

ErrorPrompts ==
  { "invalid_village", "empty_name", "invalid_category", "invalid_subcat",
    "invalid_confirm" }

\* C6: a wizard turn answered with an error re-prompt continues the dialog
\* and leaves the session's wizard fields and recent list, and the catalog,
\* as they were.
C6_InvalidInputKeepsState ==
  [][HandleStep /\ IsWizardTurn(tokens') /\ reply'.screen \in ErrorPrompts
     => /\ reply'.tag = "CON"
        /\ SESSIONS'[SidOf(req')] = SessionOf(SESSIONS, SidOf(req'))
        /\ \A sid \in DOMAIN SESSIONS : SESSIONS'[sid] = SESSIONS[sid]
        /\ DB' = DB]_vars

\* an invalid confirm action was refused while village, name and category
\* are stored
C6_Witness ==
  /\ pc = "done"
  /\ reply.screen = "invalid_confirm"
  /\ DOMAIN SESSIONS[SidOf(req)].add = {"village", "name", "category_main"}

\* C7: when the confirm action is "1" and village, name or categoryMain is
\* not in the wizard state, or the caller phone is missing, nothing is
\* inserted, the wizard is cleared and the reply is the END failure screen;
\* a record is inserted only when all of them were collected.
C7_IncompleteCommit ==
  [][HandleStep /\ SidOf(req') # <<>>
     => LET add_state == SessionOf(SESSIONS, SidOf(req')).add
            complete  == /\ {"village", "name", "category_main"} \subseteq DOMAIN add_state
                         /\ WithoutPlus(PhoneOf(req')) # <<>>
        IN  /\ (HasConfirmAction(tokens', add_state, <<"1">>) /\ ~complete
                  => /\ DB' = DB
                     /\ SESSIONS'[SidOf(req')].add = EmptyDict
                     /\ reply'.tag = "END"
                     /\ reply'.screen = "missing_data")
            /\ (DB' # DB => complete)]_vars

\* tokens a caller may type next
ContinuationTokens == { <<"0">>, <<"1">>, <<"2">>, <<"8">>, <<"9">> }

Continuations == UNION { [1..n -> ContinuationTokens] : n \in 1..MaxAppend }

\* the accumulated text after one more token
AppendToken(text, t) == IF text = <<>> THEN t ELSE text \o <<"*">> \o t

RECURSIVE AppendedTexts(_, _)
AppendedTexts(text, ext) ==
  IF ext = <<>> THEN <<>>
  ELSE << AppendToken(text, Head(ext)) >>
         \o AppendedTexts(AppendToken(text, Head(ext)), Tail(ext))

\* C8: from every position of a continuing dialog the caller can get the
\* main menu by typing further tokens.
C8_PathToMainMenu ==
  pc = "done" /\ reply.tag = "CON" =>
    \/ reply.screen = "main_menu"
    \/ \E ext \in Continuations :
         LET out == Deliver(SESSIONS, DB, SidOf(req), PhoneOf(req),
                            AppendedTexts(req.text, ext))
         IN  \E i \in 1..Len(ext) : out.replies[i].screen = "main_menu"

Last(toks) == toks[Len(toks)]

\* C9: for a step sequence that starts with the Transport code 3: alone it
\* gets the transport sub-menu; 3,0 gets the main menu; three or more tokens
\* ending in 0 get the transport sub-menu; each of these continues the
\* dialog and changes neither the recent list nor the catalog.
C9_TransportBack ==
  [][HandleStep /\ SidOf(req') # <<>> /\ tokens' # <<>> /\ Strip(tokens'[1]) = <<"3">>
     => LET n == Len(tokens')
            untouched ==
              /\ reply'.tag = "CON"
              /\ SESSIONS'[SidOf(req')].recent = SessionOf(SESSIONS, SidOf(req')).recent
              /\ DB' = DB
        IN  /\ (n = 1 => reply'.screen = "transport_menu" /\ untouched)
            /\ (n = 2 /\ Strip(tokens'[2]) = <<"0">>
                  => reply'.screen = "main_menu" /\ untouched)
            /\ (n >= 3 /\ Strip(Last(tokens')) = <<"0">>
                  => reply'.screen = "transport_menu" /\ untouched)]_vars

\* 3,x,0 in a session that has browsed: back to the sub-menu, the numbers
\* recorded before still listed
C9_Witness ==
  /\ pc = "done"
  /\ Len(tokens) = 3
  /\ tokens[1] = <<"3">>
  /\ tokens[3] = <<"0">>
  /\ reply.screen = "transport_menu"
  /\ SESSIONS[SidOf(req)].recent # <<>>

BrowseCodes == { "1", "2", "4", "5", "6", "7" }

WizardScreens ==
  { "choose_village", "invalid_village", "enter_name", "empty_name",
    "choose_category", "invalid_category", "transport_type", "confirm",
    "invalid_subcat", "choose_confirm", "invalid_confirm",
    "cancelled", "missing_data", "saved" }

\* C10: the reply is chosen by the first token of the step sequence: none ->
\* main menu; 0 alone -> help, 0 and more -> main menu; 9 -> the recent
\* screen with at most 5 numbers; 1-7 -> the browse of that category (3: the
\* transport sub-flow); 8 -> the wizard; anything else -> main menu.  Only
\* the wizard's confirm step ends the dialog; the reply is never an error.
C10_Dispatch ==
  pc = "done" /\ SidOf(req) # <<>> =>
    LET first == IF tokens = <<>> THEN <<>> ELSE Strip(tokens[1])
    IN  /\ reply.status = 200
        /\ reply.tag \in {"CON", "END"}
        /\ (tokens = <<>> => reply = main_menu)
        /\ (first = <<"0">> =>
              reply = IF Len(tokens) = 1 THEN help_menu ELSE main_menu)
        /\ (first = <<"9">> =>
              /\ reply.screen = "recent"
              /\ Len(reply.rows) <= 5
              /\ reply.rows = [i \in 1..Len(reply.rows) |->
                                 Row(<<>>, "", SESSIONS[SidOf(req)].recent[i])]
              /\ Len(reply.rows) = Len(SESSIONS[SidOf(req)].recent))
        /\ (Len(first) = 1 /\ first[1] \in BrowseCodes =>
              /\ reply.screen = "list"
              /\ \A i \in 1..Len(reply.rows) :
                   \E k \in 1..Len(DB) :
                     /\ DB[k].phone = reply.rows[i].phone
                     /\ DB[k].name = reply.rows[i].name
                     /\ DB[k].category \o " (latest):" = reply.title)
        /\ (first = <<"3">> =>
              reply.screen \in {"transport_menu", "main_menu", "invalid_transport", "list"})
        /\ (first = <<"8">> => reply.screen \in WizardScreens)
        /\ (tokens # <<>> /\ first \notin { <<"0">>, <<"9">>, <<"8">>, <<"3">> }
              /\ ~(Len(first) = 1 /\ first[1] \in BrowseCodes)
              => reply = main_menu)
        /\ (reply.tag = "END" => first = <<"8">> /\ Len(tokens) >= 5)

\* "0" followed by another token: the main menu, not the help screen
C10_Witness ==
  /\ pc = "done"
  /\ Len(tokens) = 2
  /\ tokens[1] = <<"0">>
  /\ reply = main_menu

\* the storage categories a browse of sub-category code k must show
BrowsedCategories(k) ==
  IF k = <<"1">> THEN {"Transport - Riders"}
  ELSE IF k = <<"2">> THEN {"Transport - Pickups", "Transport"}
  ELSE {"Transport - Lorries"}

\* the catalog records of the given categories, newest first, as listed
RECURSIVE ListedNewestFirst(_, _)
ListedNewestFirst(D, cats) ==
  IF D = <<>> THEN <<>>
  ELSE LET r == D[Len(D)]
           rest == ListedNewestFirst(SubSeq(D, 1, Len(D) - 1), cats)
       IN  IF r.category \in cats
           THEN << Row(r.name, r.village, r.phone) >> \o rest
           ELSE rest

\* C11: a transport browse 3,k lists exactly the records stored as
\* "Transport - X" for its own sub-category X, and the records stored as the
\* bare "Transport" only when X is Pickups.
C11_LegacyCompatibility ==
  pc = "done" /\ SidOf(req) # <<>> /\ Len(tokens) >= 2
    /\ Strip(tokens[1]) = <<"3">>
    /\ Strip(tokens[2]) \in { <<"1">>, <<"2">>, <<"3">> }
    /\ Strip(Last(tokens)) # <<"0">>
  => /\ reply.screen = "list"
     /\ reply.title = "Transport - " \o SubOfCode[Strip(tokens[2])[1]] \o " (latest):"
     /\ reply.rows = ListedNewestFirst(DB, BrowsedCategories(Strip(tokens[2])))

\* a Pickups browse that shows the legacy record b between newer and older
\* Pickups records
C11_Witness ==
  /\ pc = "done"
  /\ tokens = << <<"3">>, <<"2">> >>
  /\ \E i \in 1..Len(reply.rows) : reply.rows[i].name = <<"b">>
  /\ \E i \in 1..Len(reply.rows) : reply.rows[i].name = <<"f">>
  /\ \A i \in 1..Len(reply.rows) : reply.rows[i].name \notin { <<"e">>, <<"h">> }

\* C12: a non-transport label resolves to itself whatever the sub-category,
\* none included; "Transport" with a sub-category X resolves to
\* "Transport - X"; "Transport" with no or an empty sub-category resolves to
\* the bare "Transport".
C12_CategoryResolution ==
  pc = "returned" =>
    /\ req.main_cat # "Transport" => reply = req.main_cat
    /\ req.main_cat = "Transport" /\ req.transport_subcat \in { None, "" }
         => reply = "Transport"
    /\ req.main_cat = "Transport" /\ req.transport_subcat \notin { None, "" }
         => reply = "Transport - " \o req.transport_subcat

\* a non-transport label resolved with a transport sub-category present
C12_Witness ==
  /\ pc = "returned"
  /\ req.main_cat = "Health & Care"
  /\ req.transport_subcat = "Riders"
  /\ reply = "Health & Care"

\* the category values the catalog may hold
StorageCategories ==
  { "Shops & Daily Needs", "Food & Drinks", "Services (Fundis)",
    "Farming & Inputs", "Health & Care", "Education & Community",
    "Transport - Riders", "Transport - Pickups", "Transport - Lorries",
    "Transport" }

\* the records added to the catalog since start-up
Inserted == SubSeq(DB, Len(SeedDB) + 1, Len(DB))

\* C13: every record the engine inserted has one of the six non-transport
\* labels, a composite "Transport - X" or the bare "Transport" as category,
\* one of the three pilot villages as village, and a non-empty name.
C13_CatalogInvariant ==
  \A i \in 1..Len(Inserted) :
    /\ Inserted[i].category \in StorageCategories
    /\ Inserted[i].village \in { "Sega", "Bumala", "Murende" }
    /\ Inserted[i].name # <<>>

\* the wizard has just stored a Pickups record
C13_Witness ==
  /\ pc = "done"
  /\ reply.screen = "saved"
  /\ Len(Inserted) = 1
  /\ Inserted[1].category = "Transport - Pickups"
  /\ Inserted[1].village = "Sega"

\* C14: a request whose session id is absent or blank is rejected with a
\* client error; it creates no session, changes no session state and leaves
\* the catalog as it was.
C14_MissingSessionId ==
  [][ HandleStep /\ SidOf(req') = <<>>
      => /\ reply'.status = 400
         /\ reply'.tag \notin { "CON", "END" }
         /\ SESSIONS' = SESSIONS
         /\ DB' = DB ]_vars

\* a request with a blank session id was rejected while sessions exist, one
\* of them in the middle of the wizard
C14_Witness ==
  /\ pc = "done"
  /\ req.sessionId = <<" ">>
  /\ reply.status = 400
  /\ <<"s">> \in DOMAIN SESSIONS
  /\ DOMAIN SessionOf(SESSIONS, <<"s">>).add # {}

\* the phone of the record a commit has just stored, or of the one row of the
\* confirm screen
PhoneWritten(D, D2, r) ==
  IF D2 # D THEN D2[Len(D2)].phone ELSE r.rows[1].phone

WritesPhone(D, D2, r) == D2 # D \/ r.screen = "confirm"

\* C15 as stated: the phone stored or shown is the caller's phone without its
\* one leading "+", and is otherwise the caller's phone.
C15_Original ==
  [][ HandleStep /\ WritesPhone(DB, DB', reply')
      => PhoneWritten(DB, DB', reply') = WithoutLeadingPlus(PhoneOf(req')) ]_vars

\* C15: the phone stored by a commit, and the one shown on the confirm
\* screen, is the caller's phone with every "+" removed, leading or not, and
\* surrounding blanks trimmed.
C15_PhoneNormalization ==
  [][ HandleStep /\ WritesPhone(DB, DB', reply')
      => PhoneWritten(DB, DB', reply') = WithoutPlus(PhoneOf(req')) ]_vars

\* a record was stored for a caller whose number holds a second "+"
C15_Witness ==
  /\ pc = "done"
  /\ reply.screen = "saved"
  /\ req.phoneNumber = <<"+", "7", "+", "1">>
  /\ DB[Len(DB)].phone = <<"7", "1">>

\* valid category codes a caller may type when asked again for the category
CategoryRetries == { <<"1">>, <<"3">>, <<"7">> }

RetrySequences == UNION { [1..n -> CategoryRetries] : n \in 1..MaxAppend }

\* C16: after a wizard turn of four tokens was answered "Invalid category"
\* with no categoryMain stored, the token appended next is read as the confirm
\* action: "1" ends the dialog with "Missing data" and empties the wizard
\* state, "2" ends it with "Cancelled"; and whatever valid category codes are
\* appended, categoryMain is never stored and nothing is inserted.
C16_RetryMisrouted ==
  pc = "done" /\ reply.screen = "invalid_category"
    /\ "category_main" \notin DOMAIN SessionOf(SESSIONS, SidOf(req)).add
  => LET sid  == SidOf(req)
         one  == ussd(SESSIONS, DB, Request(sid, req.phoneNumber,
                                            AppendToken(req.text, <<"1">>)))
         two  == ussd(SESSIONS, DB, Request(sid, req.phoneNumber,
                                            AppendToken(req.text, <<"2">>)))
     IN  /\ Len(tokens) = 4
         /\ one.reply.tag = "END" /\ one.reply.screen = "missing_data"
         /\ one.S[sid].add = EmptyDict /\ one.D = DB
         /\ two.reply.tag = "END" /\ two.reply.screen = "cancelled"
         /\ two.D = DB
         /\ \A ext \in RetrySequences :
              LET d == Deliver(SESSIONS, DB, sid, req.phoneNumber,
                               AppendedTexts(req.text, ext))
              IN  /\ "category_main" \notin DOMAIN d.S[sid].add
                  /\ d.D = DB
                  /\ \A i \in 1..Len(ext) :
                       d.replies[i].screen \notin { "confirm", "transport_type", "saved" }

\* a caller who has given village and name was just told the category is
\* invalid
C16_Witness ==
  /\ pc = "done"
  /\ reply.screen = "invalid_category"
  /\ DOMAIN SessionOf(SESSIONS, SidOf(req)).add = { "village", "name" }
  /\ Strip(tokens[4]) = <<"9">>

\* the screen a confirm action a must be answered with
AnswersAction(a, screen) ==
  /\ a = <<"1">> <=> screen \in { "saved", "missing_data" }
  /\ a = <<"2">> <=> screen = "cancelled"
  /\ a \notin { <<"1">>, <<"2">> } <=> screen = "invalid_confirm"

\* C17: a wizard turn of five or more tokens reads its confirm action from the
\* 6th token when the stored categoryMain is Transport and from the 5th
\* otherwise; with Transport stored and exactly five tokens the 5th token is
\* the sub-category answer: the turn is answered with the confirm screen or
\* the sub-category error, the dialog continues, nothing is inserted and no
\* wizard field is removed.
C17_ConfirmOffset ==
  [][ HandleStep /\ SidOf(req') # <<>> /\ IsWizardTurn(tokens') /\ Len(tokens') >= 5
      => LET sid  == SidOf(req')
             add  == SessionOf(SESSIONS, sid).add
             main == Get(add, "category_main", None)
         IN  IF main = "Transport" /\ Len(tokens') = 5
             THEN /\ reply'.tag = "CON"
                  /\ reply'.screen \in { "confirm", "invalid_subcat" }
                  /\ reply'.screen = "confirm"
                       <=> Strip(tokens'[5]) \in { <<"1">>, <<"2">>, <<"3">> }
                  /\ DB' = DB
                  /\ DOMAIN add \subseteq DOMAIN SESSIONS'[sid].add
             ELSE IF main = "Transport"
             THEN AnswersAction(Strip(tokens'[6]), reply'.screen)
             ELSE AnswersAction(Strip(tokens'[5]), reply'.screen) ]_vars

\* with Transport stored, a 5th token "2" chose Pickups and cancelled nothing
C17_Witness ==
  /\ pc = "done"
  /\ Len(tokens) = 5
  /\ Strip(tokens[5]) = <<"2">>
  /\ reply.screen = "confirm"
  /\ reply.title = "Transport - Pickups"
  /\ Get(SessionOf(SESSIONS, SidOf(req)).add, "category_sub", None) = "Pickups"

\* C18: a record committed while the stored categoryMain is Transport has
\* the category "Transport - X", X being the stored categorySub; the wizard
\* never writes the bare "Transport".
C18_TransportCommit ==
  [][ HandleStep /\ SidOf(req') # <<>> /\ IsWizardTurn(tokens') /\ DB' # DB
        /\ Get(SessionOf(SESSIONS, SidOf(req')).add, "category_main", None) = "Transport"
      => LET add == SessionOf(SESSIONS, SidOf(req')).add
         IN  /\ "category_sub" \in DOMAIN add
             /\ DB'[Len(DB')].category = "Transport - " \o add["category_sub"]
             /\ DB'[Len(DB')].category # "Transport" ]_vars

\* the screens after which the wizard state must be empty
ResetScreens == { "cancelled", "saved", "missing_data" }

\* C19: the wizard state of the session is empty right after a request whose
\* step sequence is just 8, after a cancel, after a successful save and after
\* a failed commit, and the session's recent list is then what it was before;
\* after any other request every wizard field that was set is still set.
C19_ResetLifecycle ==
  [][ HandleStep /\ SidOf(req') # <<>>
      => LET sid    == SidOf(req')
             before == SessionOf(SESSIONS, sid)
             after  == SESSIONS'[sid]
         IN  IF (Len(tokens') = 1 /\ Strip(tokens'[1]) = <<"8">>)
                  \/ reply'.screen \in ResetScreens
             THEN after.add = EmptyDict /\ after.recent = before.recent
             ELSE DOMAIN before.add \subseteq DOMAIN after.add ]_vars

\* a save emptied the wizard state of a session that has browsed: the fields
\* of the stored record are gone, the recent list is not
C19_Witness ==
  /\ pc = "done"
  /\ reply.screen = "saved"
  /\ DB[Len(DB)].name = <<"A">>
  /\ SessionOf(SESSIONS, SidOf(req)).add = EmptyDict
  /\ SessionOf(SESSIONS, SidOf(req)).recent # <<>>

\* a store holding nothing but an entry for sid with both fields empty
FreshStore(sid) == [x \in {sid} |-> [recent |-> <<>>, add |-> EmptyDict]]

\* C20: no step removes a session entry; a request naming an unseen session
\* id adds exactly that entry, which starts with an empty recent list and an
\* empty wizard state (the request is then served on it); and a request for
\* one session id leaves the entries of all other ids as they were.
C20_SessionIsolation ==
  [][ /\ DOMAIN SESSIONS \subseteq DOMAIN SESSIONS'
      /\ ~HandleStep => SESSIONS' = SESSIONS
      /\ HandleStep /\ SidOf(req') # <<>>
         => LET sid == SidOf(req')
            IN  /\ DOMAIN SESSIONS' = DOMAIN SESSIONS \cup {sid}
                /\ \A o \in DOMAIN SESSIONS \ {sid} : SESSIONS'[o] = SESSIONS[o]
                /\ sid \notin DOMAIN SESSIONS
                   => /\ SESSIONS'[sid] = ussd(FreshStore(sid), DB, req').S[sid]
                      /\ tokens' = <<>> => SESSIONS'[sid] = FreshStore(sid)[sid] ]_vars

\* two sessions are in the middle of the wizard with different fields; the
\* second was created while the first already held its fields
C20_Witness ==
  /\ pc = "done"
  /\ SidOf(req) = <<"t">>
  /\ DOMAIN SESSIONS = { <<"s">>, <<"t">> }
  /\ DOMAIN SESSIONS[<<"t">>].add = { "village" }
  /\ DOMAIN SESSIONS[<<"s">>].add = { "village", "name", "category_main" }
  /\ SESSIONS[<<"s">>].recent # <<>>

\* the orders in which the requests of the threads can be served one by one
SerialOrders ==
  { o \in [1..Cardinality(WorkerIds) -> WorkerIds] :
      \A i, j \in 1..Cardinality(WorkerIds) : i # j => o[i] # o[j] }

\* the store, the catalog and the replies after serving the requests of the
\* threads one after the other in the order o, from the start
RECURSIVE SerialRun(_, _)
SerialRun(o, n) ==
  IF n = 0 THEN [S |-> StartSessions, D |-> SeedDB, replies |-> <<>>]
  ELSE LET before == SerialRun(o, n - 1)
           res    == ussd(before.S, before.D, workers[o[n]].req)
       IN  [S |-> res.S, D |-> res.D, replies |-> Append(before.replies, res.reply)]

AllDone == \A w \in WorkerIds : workers[w].pc = "done"

\* C21: requests for distinct session ids answered at the same time, their
\* steps interleaved in any way: once a thread has looked up or created its
\* session entry, the entry exists and nothing but the thread itself changes
\* it; and when all have replied, the sessions, the catalog and every reply
\* are those of serving the requests one by one in some order.
C21_ConcurrentSessions ==
  /\ \A w \in WorkerIds :
       workers[w].pc \in { "read", "store", "write" }
       => /\ w \in DOMAIN SESSIONS
          /\ SESSIONS[w] = IF w \in DOMAIN StartSessions THEN StartSessions[w]
                           ELSE NewSession
  /\ \A w \in WorkerIds : workers[w].pc = "done"
       => w \in DOMAIN SESSIONS /\ SESSIONS[w] = workers[w].out
  /\ AllDone
     => \E o \in SerialOrders :
          LET run == SerialRun(o, Cardinality(WorkerIds))
          IN  /\ SESSIONS = run.S
              /\ DB = run.D
              /\ \A i \in 1..Cardinality(WorkerIds) :
                   workers[o[i]].reply = run.replies[i]

\* both commits and both first requests of unseen ids were served together:
\* two records were inserted, t's before s's, and v, who saw t's record but
\* whose entry was created after u's, has it in its recent list
C21_Witness ==
  /\ AllDone
  /\ Len(DB) = Len(SeedDB) + 2
  /\ DB[Len(DB)].name = <<"A">>
  /\ DOMAIN SESSIONS = WorkerIds
  /\ Len(SESSIONS[<<"v">>].recent) = 4
  /\ SESSIONS[<<"u">>].add # EmptyDict

\* the label browsed under each non-transport code
NonTransportLabel ==
  [k \in BrowseCodes |->
     IF k = "1" THEN "Shops & Daily Needs"
     ELSE IF k = "2" THEN "Food & Drinks"
     ELSE IF k = "4" THEN "Services (Fundis)"
     ELSE IF k = "5" THEN "Farming & Inputs"
     ELSE IF k = "6" THEN "Health & Care"
     ELSE "Education & Community"]

\* the step sequence is a browse: a non-transport code first, or 3 with a
\* valid sub-category code and no back token at the end
IsNonTransportBrowse(toks) ==
  toks # <<>> /\ Len(Strip(toks[1])) = 1 /\ Strip(toks[1])[1] \in BrowseCodes

IsTransportListing(toks) ==
  /\ Len(toks) >= 2
  /\ Strip(toks[1]) = <<"3">>
  /\ Strip(toks[2]) \in { <<"1">>, <<"2">>, <<"3">> }
  /\ ~(Len(toks) >= 3 /\ Strip(Last(toks)) = <<"0">>)

\* the storage categories a browse with step sequence toks matches
MatchedBy(toks) ==
  IF IsNonTransportBrowse(toks) THEN { NonTransportLabel[Strip(toks[1])[1]] }
  ELSE BrowsedCategories(Strip(toks[2]))

\* C22: a browse adds to the session's recent list the phones of the (at
\* most) 5 newest records of the browsed category and nothing else, so every
\* one of those phones is in the list afterwards; it leaves the catalog and
\* the session's wizard state as they were; and a non-transport browse is
\* answered, and changes the session, exactly as the request holding only its
\* first token.
C22_BrowseEffect ==
  [][ HandleStep /\ SidOf(req') # <<>>
        /\ (IsNonTransportBrowse(tokens') \/ IsTransportListing(tokens'))
      => LET sid    == SidOf(req')
             before == SessionOf(SESSIONS, sid)
             after  == SESSIONS'[sid]
             newest == Prefix(ListedNewestFirst(DB, MatchedBy(tokens')), 5)
             phones == { newest[i].phone : i \in 1..Len(newest) }
             alone  == ussd(SESSIONS, DB,
                            Request(sid, req'.phoneNumber, Strip(tokens'[1])))
         IN  /\ reply'.screen = "list"
             /\ phones \subseteq Range(after.recent)
             /\ Range(after.recent) \subseteq Range(before.recent) \cup phones
             /\ phones # {} => after.recent[1] = newest[Len(newest)].phone
             /\ DB' = DB
             /\ after.add = before.add
             /\ IsNonTransportBrowse(tokens')
                => reply' = alone.reply /\ SESSIONS' = alone.S ]_vars

\* in the middle of the wizard a caller browsed Shops with a further token
\* typed after the code: the three numbers listed are the recent list
C22_Witness ==
  /\ pc = "done"
  /\ tokens = << <<"1">>, <<"0">> >>
  /\ reply.screen = "list"
  /\ Len(reply.rows) = 3
  /\ Len(SessionOf(SESSIONS, SidOf(req)).recent) = 3
  /\ "name" \in DOMAIN SessionOf(SESSIONS, SidOf(req)).add

\* C23: every reply to a request with a session id is tagged CON or END; an
\* END reply is one of Cancelled, Saved, Missing data, given by a wizard turn
\* of five or more tokens, and leaves the session's wizard state empty; the
\* catalog changes only in a turn answered END Saved, by one record.
C23_ReplyTags ==
  [][ HandleStep /\ SidOf(req') # <<>>
      => /\ reply'.status = 200
         /\ reply'.tag \in { "CON", "END" }
         /\ reply'.tag = "END"
            => /\ reply'.screen \in { "cancelled", "saved", "missing_data" }
               /\ IsWizardTurn(tokens') /\ Len(tokens') >= 5
               /\ SESSIONS'[SidOf(req')].add = EmptyDict
         /\ reply'.screen \in { "cancelled", "saved", "missing_data" }
            => reply'.tag = "END"
         /\ DB' # DB
            => /\ reply'.tag = "END" /\ reply'.screen = "saved"
               /\ Len(DB') = Len(DB) + 1
               /\ SubSeq(DB', 1, Len(DB)) = DB ]_vars

\* a cancel in the transport branch ended the dialog of a session that has
\* browsed
C23_Witness ==
  /\ pc = "done"
  /\ reply.tag = "END"
  /\ reply.screen = "cancelled"
  /\ Len(tokens) = 6
  /\ SessionOf(SESSIONS, SidOf(req)).add = EmptyDict
  /\ SessionOf(SESSIONS, SidOf(req)).recent # <<>>

\* name and categoryMain are both stored in the wizard state
Armed(add_state) ==
  "name" \in DOMAIN add_state /\ "category_main" \in DOMAIN add_state

\* the text with all the tokens of ext appended
RECURSIVE Extended(_, _)
Extended(text, ext) ==
  IF ext = <<>> THEN text ELSE Extended(AppendToken(text, Head(ext)), Tail(ext))

\* C24: a record is inserted only by a turn that finds name and categoryMain
\* both stored, and that turn inserts one record and empties the wizard
\* state, so each time the two fields come to be stored pays for at most one
\* record; and after a turn answered Saved, the same text delivered again,
\* followed turn by turn by further tokens, or a longer text delivered at
\* once, inserts nothing.
C24_AtMostOnceCommit ==
  /\ [][ HandleStep /\ DB' # DB
         => /\ SidOf(req') # <<>>
            /\ Armed(SessionOf(SESSIONS, SidOf(req')).add)
            /\ ~Armed(SESSIONS'[SidOf(req')].add)
            /\ Len(DB') = Len(DB) + 1 ]_vars
  /\ [][ HandleStep /\ reply'.screen = "saved"
         => \A ext \in { <<>> } \cup Continuations :
              /\ Deliver(SESSIONS', DB', SidOf(req'), req'.phoneNumber,
                         << req'.text >> \o AppendedTexts(req'.text, ext)).D = DB'
              /\ ussd(SESSIONS', DB',
                      Request(SidOf(req'), req'.phoneNumber,
                              Extended(req'.text, ext))).D = DB' ]_vars

\* the text that had stored a record was delivered a second time and refused
C24_Witness ==
  /\ pc = "done"
  /\ tokens = << <<"8">>, <<"1">>, <<"A">>, <<"1">>, <<"1">> >>
  /\ reply.screen = "missing_data"
  /\ Len(DB) = Len(SeedDB) + 1
  /\ DB[Len(DB)].category = "Shops & Daily Needs"
  /\ DB[Len(DB)].village = "Sega"

====
